---- MODULE Spec2Model ----
(***************************************************************************)
(* The two front-ends of the data analyzer as one state machine.           *)
(*                                                                         *)
(*   app = "tk"  the desktop window     (src/data_analyzer_tk.py)          *)
(*   app = "st"  the browser script     (src/Analyzer_app.py)              *)
(*                                                                         *)
(* A run picks one front-end in Init and then takes that front-end's UI    *)
(* events.  Every event is one action and runs its handler to completion:  *)
(* for the desktop window the callback, for the browser a whole rerun of   *)
(* the script against the session state.                                   *)
(*                                                                         *)
(* An optional value (Python None or an object) is a sequence of length    *)
(* at most one.  A table is the non-empty sequence of its columns; a       *)
(* column is [name, dtype, vals] and a value a cell, [na, v] in a numeric  *)
(* column and [na, s] in an object column (na marks NaN).                  *)
(***************************************************************************)
EXTENDS Integers, Sequences, FiniteSets, TLC

VARIABLES
    app,                \* which front-end this run is
    df,                 \* the held table: global df / st.session_state.df
    uploaded_file,      \* st: the file in the uploader widget
    last_uploaded_name, \* st: session_state.last_uploaded_name
    show_stats,         \* st: session_state.show_stats
    show_plot,          \* st: session_state.show_plot
    plot_col,           \* st: session_state.plot_col ("" while unset)
    buttons,            \* tk: state of analyze_button and visualize_button
    col_select_var,     \* tk: the StringVar behind the column menu
    menu,               \* tk: the entries of col_select_menu
    stats_out,          \* displayed statistics table (tk: output_text)
    range_out,          \* displayed range list       (tk: output_text)
    plot_out,           \* displayed histogram        (tk: plot_frame)
    msgs,               \* messages the last event showed
    ev                  \* the last event and what it ran

vars == <<app, df, uploaded_file, last_uploaded_name, show_stats, show_plot,
          plot_col, buttons, col_select_var, menu, stats_out, range_out,
          plot_out, msgs, ev>>

None == <<>>
Some(x) == <<x>>
Get(o) == o[1]

-----------------------------------------------------------------------------
(* Files the user can pick.  A file's content is its decoded lines, each a *)
(* sequence of comma-separated fields, and whether its bytes are UTF-8.    *)
(* The first data row of every file is no longer than the header.          *)

MaxFiles == 9

Csv(lines) == [utf8 |-> TRUE, lines |-> lines]

Fixtures ==
    << \* two numeric columns
       Csv(<< <<"x", "y">>, <<"1", "5">>, <<"3", "5">> >>),
       \* a numeric column with a missing value, then a text column
       Csv(<< <<"y", "x">>, <<"4", "a">>, <<"", "b">>, <<"1", "a">> >>),
       \* text only
       Csv(<< <<"x">>, <<"a">>, <<"b">> >>),
       \* header only
       Csv(<< <<"x", "y">> >>),
       \* an empty file
       Csv(<< >>),
       \* a column with no value at all, then a numeric column
       Csv(<< <<"z", "x">>, <<"", "2">>, <<"", "7">> >>),
       \* a data row longer than the header
       Csv(<< <<"x", "y">>, <<"1", "2">>, <<"1", "2", "3">> >>),
       \* bytes that are not UTF-8
       [utf8 |-> FALSE, lines |-> << <<"x">>, <<"1">> >>],
       \* a short data row
       Csv(<< <<"x", "y">>, <<"1", "2">>, <<"3">> >>),
       \* two numeric columns, other values
       Csv(<< <<"x", "y">>, <<"2", "5">>, <<"9", "6">> >>) >>

Contents ==
    {Fixtures[i] : i \in 1..(IF MaxFiles < Len(Fixtures) THEN MaxFiles ELSE Len(Fixtures))}

FileNames == {"a.csv", "b.csv"}

Files == [name : FileNames, content : Contents]

-----------------------------------------------------------------------------
(* pandas.read_csv as both front-ends call it: default options.            *)

Digit ==
    [s \in {"0", "1", "2", "3", "4", "5", "6", "7", "8", "9"} |->
        CASE s = "0" -> 0 [] s = "1" -> 1 [] s = "2" -> 2 [] s = "3" -> 3
          [] s = "4" -> 4 [] s = "5" -> 5 [] s = "6" -> 6 [] s = "7" -> 7
          [] s = "8" -> 8 [] s = "9" -> 9]

NaNum == [na |-> TRUE, v |-> 0]
NumCell(n) == [na |-> FALSE, v |-> n]
NaStr == [na |-> TRUE, s |-> ""]
StrCell(t) == [na |-> FALSE, s |-> t]

\* field j of a data row; a row shorter than the header is padded with NaN
Field(row, j) == IF j <= Len(row) THEN row[j] ELSE ""

RawColumn(lines, j) == [i \in 1..(Len(lines) - 1) |-> Field(lines[i + 1], j)]

\* every value is empty or a number, and there is at least one row
ParsesAsNumbers(raw) ==
    /\ Len(raw) > 0
    /\ \A i \in DOMAIN raw : raw[i] = "" \/ raw[i] \in DOMAIN Digit

InferColumn(name, raw) ==
    IF ParsesAsNumbers(raw)
    THEN [name |-> name,
          dtype |-> IF \E i \in DOMAIN raw : raw[i] = "" THEN "float64" ELSE "int64",
          vals |-> [i \in DOMAIN raw |->
                      IF raw[i] = "" THEN NaNum ELSE NumCell(Digit[raw[i]])]]
    ELSE [name |-> name,
          dtype |-> "object",
          vals |-> [i \in DOMAIN raw |->
                      IF raw[i] = "" THEN NaStr ELSE StrCell(raw[i])]]

\* [ok, table]: UnicodeDecodeError, EmptyDataError and ParserError are the
\* failures; otherwise one typed column per header field
read_csv(content) ==
    LET lines == content.lines IN
    IF \/ ~content.utf8
       \/ lines = << >>
       \/ \E i \in 2..Len(lines) : Len(lines[i]) > Len(lines[1])
    THEN [ok |-> FALSE, table |-> << >>]
    ELSE [ok |-> TRUE,
          table |-> [j \in 1..Len(lines[1]) |->
                       InferColumn(lines[1][j], RawColumn(lines, j))]]

is_numeric_dtype(c) == c.dtype \in {"int64", "float64"}

columns(t) == {t[j].name : j \in DOMAIN t}

column(t, name) == t[CHOOSE j \in DOMAIN t : t[j].name = name]

IsNumericCol(c) == is_numeric_dtype(c)

\* names of the numeric columns, in table order (the list comprehension)
numerical_cols(t) ==
    LET sel == SelectSeq(t, IsNumericCol) IN [i \in DOMAIN sel |-> sel[i].name]

-----------------------------------------------------------------------------
(* Summarizer                                                              *)

IsPresent(cell) == ~cell.na

\* Series.max / Series.min skip NaN and give NaN when nothing is left
np_max(c) ==
    LET p == SelectSeq(c.vals, IsPresent) IN
    IF p = << >> THEN NaNum
    ELSE NumCell(CHOOSE m \in {p[i].v : i \in DOMAIN p} :
                    \A i \in DOMAIN p : p[i].v <= m)

np_min(c) ==
    LET p == SelectSeq(c.vals, IsPresent) IN
    IF p = << >> THEN NaNum
    ELSE NumCell(CHOOSE m \in {p[i].v : i \in DOMAIN p} :
                    \A i \in DOMAIN p : m <= p[i].v)

\* np.max(df[col]) - np.min(df[col]); NaN propagates
data_range(c) ==
    IF np_max(c).na \/ np_min(c).na THEN NaNum
    ELSE NumCell(np_max(c).v - np_min(c).v)

\* f"{data_range:.2f}"
Format2f(cell) == IF cell.na THEN "nan" ELSE ToString(cell.v) \o ".00"

\* one row of DataFrame.describe(): count/min/max of a numeric column,
\* count/unique of an object column (mean, std, quartiles, top and freq are
\* not modelled)
describe_1d(c) ==
    LET p == SelectSeq(c.vals, IsPresent) IN
    IF is_numeric_dtype(c)
    THEN [col |-> c.name, kind |-> "number", count |-> Len(p),
          min |-> np_min(c), max |-> np_max(c), unique |-> 0]
    ELSE [col |-> c.name, kind |-> "object", count |-> Len(p),
          min |-> NaNum, max |-> NaNum,
          unique |-> Cardinality({p[i].s : i \in DOMAIN p})]

\* DataFrame.describe() with no include/exclude: the numeric columns, or
\* every column when there is no numeric one
describe(t) ==
    LET num == SelectSeq(t, IsNumericCol)
        data == IF num = << >> THEN t ELSE num
    IN [i \in DOMAIN data |-> describe_1d(data[i])]

RangeEntry(c) == [col |-> c.name, text |-> Format2f(data_range(c))]

\* the subtraction on an object column with values is a TypeError; an
\* object column has values exactly when the table has rows
RangeRaises(c) == ~is_numeric_dtype(c) /\ Len(c.vals) > 0

\* browser show_statistics: [stats, ranges, raised]; the statistics table is
\* shown before the loop, the range table only if the loop completes
St_show_statistics(t) ==
    LET stats == describe(t)
        raised == \E i \in DOMAIN stats : RangeRaises(column(t, stats[i].col))
    IN [stats |-> Some(stats),
        ranges |-> IF raised THEN None
                   ELSE Some([i \in DOMAIN stats |->
                                RangeEntry(column(t, stats[i].col))]),
        raised |-> raised]

\* desktop show_statistics: the range loop skips non-numeric columns
Tk_show_statistics(t) ==
    LET stats == describe(t)
        IsNum(row) == is_numeric_dtype(column(t, row.col))
        sel == SelectSeq(stats, IsNum)
    IN [stats |-> Some(stats),
        ranges |-> Some([i \in DOMAIN sel |-> RangeEntry(column(t, sel[i].col))]),
        raised |-> FALSE]

-----------------------------------------------------------------------------
(* Plotter                                                                 *)

Bins == 20

\* Series.hist: the non-missing values of the column, in Bins bins
hist(t, c) ==
    [col |-> c, bins |-> Bins, data |-> SelectSeq(column(t, c).vals, IsPresent)]

St_valid_column_any_dtype(t, c) == c # "" /\ c \in columns(t)

\* the browser's condition for drawing
St_valid_column(t, c) ==
    c # "" /\ c \in columns(t) /\ is_numeric_dtype(column(t, c))

\* the desktop's condition for drawing (the negation of its early return)
Tk_valid_column(t, c) ==
    ~(c = "" \/ c \notin columns(t) \/ ~is_numeric_dtype(column(t, c)))

\* browser visualize_data: [plot, warn]
St_visualize_data(t, c) ==
    IF St_valid_column(t, c)
    THEN [plot |-> Some(hist(t, c)), warn |-> FALSE]
    ELSE [plot |-> None, warn |-> TRUE]

-----------------------------------------------------------------------------
(* Events                                                                  *)

Event(kind, file, loader, failed, summarizer, plotter, drew, raised) ==
    [kind |-> kind, file |-> file, loader |-> loader, failed |-> failed,
     summarizer |-> summarizer, plotter |-> plotter, drew |-> drew,
     raised |-> raised]

Init ==
    /\ app \in {"tk", "st"}
    /\ df = None
    /\ uploaded_file = None
    /\ last_uploaded_name = None
    /\ show_stats = FALSE
    /\ show_plot = FALSE
    /\ plot_col = ""
    /\ buttons = "disabled"
    /\ col_select_var = ""
    /\ menu = << >>
    /\ stats_out = None
    /\ range_out = None
    /\ plot_out = None
    /\ msgs = IF app = "st" THEN {"info: upload a file"} ELSE {}
    /\ ev = Event("init", None, FALSE, FALSE, FALSE, None, FALSE, FALSE)

(* ---- desktop window ---- *)

Tk_df_after_load_keep(r) == IF r.ok THEN Some(r.table) ELSE df

\* global df after the try/except of load_data
Tk_df_after_load(r) == IF r.ok THEN Some(r.table) ELSE None

Tk_buttons_after_load_enabled(r) == "normal"

\* state of both analysis buttons after the try/except of load_data
Tk_buttons_after_load(r) == IF r.ok THEN "normal" ELSE "disabled"

\* 'Load CSV File' with a file chosen in the dialog
Tk_load_data(f) ==
    /\ app = "tk"
    /\ LET r == read_csv(f.content)
           num == IF r.ok THEN numerical_cols(r.table) ELSE << >>
       IN /\ df' = Tk_df_after_load(r)
          /\ buttons' = Tk_buttons_after_load(r)
          /\ IF r.ok
             THEN /\ stats_out' = None
                  /\ range_out' = None
                  /\ col_select_var' = (IF num # << >> THEN num[1] ELSE "")
                  /\ menu' = num
                  /\ msgs' = {}
             ELSE /\ UNCHANGED <<stats_out, range_out, col_select_var, menu>>
                  /\ msgs' = {"showerror: could not load file"}
          /\ ev' = Event("select", Some(f), TRUE, ~r.ok, FALSE, None, FALSE, FALSE)
    /\ UNCHANGED <<app, uploaded_file, last_uploaded_name, show_stats,
                   show_plot, plot_col, plot_out>>

\* the dialog's empty path read like a chosen one: the read fails
Tk_cancel_no_return ==
    /\ app = "tk"
    /\ df' = None
    /\ buttons' = "disabled"
    /\ msgs' = {"showerror: could not load file"}
    /\ ev' = Event("cancel", None, TRUE, TRUE, FALSE, None, FALSE, FALSE)
    /\ UNCHANGED <<app, uploaded_file, last_uploaded_name, show_stats,
                   show_plot, plot_col, col_select_var, menu, stats_out,
                   range_out, plot_out>>

\* 'Load CSV File' with the dialog cancelled: the early return
Tk_cancel ==
    /\ app = "tk"
    /\ msgs' = {}
    /\ ev' = Event("cancel", None, FALSE, FALSE, FALSE, None, FALSE, FALSE)
    /\ UNCHANGED <<app, df, uploaded_file, last_uploaded_name, show_stats,
                   show_plot, plot_col, buttons, col_select_var, menu,
                   stats_out, range_out, plot_out>>

\* an entry of the column menu is picked
Tk_setit(c) ==
    /\ app = "tk"
    /\ \E i \in DOMAIN menu : menu[i] = c
    /\ col_select_var' = c
    /\ msgs' = {}
    /\ ev' = Event("column", None, FALSE, FALSE, FALSE, None, FALSE, FALSE)
    /\ UNCHANGED <<app, df, uploaded_file, last_uploaded_name, show_stats,
                   show_plot, plot_col, buttons, menu, stats_out, range_out,
                   plot_out>>

\* 'Show Statistics', which only an enabled button triggers
Tk_analyze_button ==
    /\ app = "tk"
    /\ buttons = "normal"
    /\ IF df = None
       THEN /\ msgs' = {"showerror: load a dataset first"}
            /\ UNCHANGED <<stats_out, range_out>>
       ELSE LET r == Tk_show_statistics(Get(df)) IN
            /\ stats_out' = r.stats
            /\ range_out' = r.ranges
            /\ msgs' = {}
    /\ ev' = Event("stats", None, FALSE, FALSE, df # None, None, FALSE, FALSE)
    /\ UNCHANGED <<app, df, uploaded_file, last_uploaded_name, show_stats,
                   show_plot, plot_col, buttons, col_select_var, menu,
                   plot_out>>

\* 'Plot Histogram', which only an enabled button triggers
Tk_visualize_button ==
    /\ app = "tk"
    /\ buttons = "normal"
    /\ IF df = None
       THEN /\ msgs' = {"showerror: load a dataset first"}
            /\ UNCHANGED plot_out
            /\ ev' = Event("plot", None, FALSE, FALSE, FALSE, None, FALSE, FALSE)
       ELSE IF ~Tk_valid_column(Get(df), col_select_var)
       THEN /\ msgs' = {"showerror: select a valid numerical column"}
            /\ UNCHANGED plot_out
            /\ ev' = Event("plot", None, FALSE, FALSE, FALSE,
                           Some(col_select_var), FALSE, FALSE)
       ELSE /\ msgs' = {}
            /\ plot_out' = Some(hist(Get(df), col_select_var))
            /\ ev' = Event("plot", None, FALSE, FALSE, FALSE,
                           Some(col_select_var), TRUE, FALSE)
    /\ UNCHANGED <<app, df, uploaded_file, last_uploaded_name, show_stats,
                   show_plot, plot_col, buttons, col_select_var, menu,
                   stats_out, range_out>>

(* ---- browser script ---- *)

\* the script's condition for calling load_data
St_file_changed(uf) ==
    uf # None /\ (df = None \/ Some(Get(uf).name) # last_uploaded_name)

\* browser load_data on a file: [df, ok]; decoding and parsing share the try
St_load_data(f) ==
    LET r == read_csv(f.content) IN
    [df |-> IF r.ok THEN Some(r.table) ELSE None, ok |-> r.ok]

\* one run of the script, top to bottom: uf is the uploader's file, click
\* the button pressed ("stats", "hist" or "") and sel the selectbox value
St_script(kind, uf, click, sel) ==
    LET need == St_file_changed(uf)
        ld == IF need THEN St_load_data(Get(uf)) ELSE [df |-> df, ok |-> TRUE]
        held == ld.df # None
        t == Get(ld.df)
        num == IF held THEN numerical_cols(t) ELSE << >>
        stats1 == IF held /\ click = "stats" THEN TRUE
                  ELSE IF held /\ num # << >> /\ click = "hist" THEN FALSE
                  ELSE show_stats
        plot1 == IF held /\ click = "stats" THEN FALSE
                 ELSE IF held /\ num # << >> /\ click = "hist" THEN TRUE
                 ELSE show_plot
        col1 == IF held /\ num # << >> /\ click = "hist" THEN sel ELSE plot_col
        summ == held /\ stats1
        sres == IF summ THEN St_show_statistics(t)
                ELSE [stats |-> None, ranges |-> None, raised |-> FALSE]
        plots == held /\ ~sres.raised /\ plot1 /\ col1 # ""
        pres == IF plots THEN St_visualize_data(t, col1)
                ELSE [plot |-> None, warn |-> FALSE]
    IN /\ app = "st"
       /\ uploaded_file' = uf
       /\ df' = ld.df
       /\ last_uploaded_name' = (IF need THEN Some(Get(uf).name)
                                 ELSE last_uploaded_name)
       /\ show_stats' = stats1
       /\ show_plot' = plot1
       /\ plot_col' = col1
       /\ stats_out' = sres.stats
       /\ range_out' = sres.ranges
       /\ plot_out' = pres.plot
       /\ msgs' = (IF need /\ ld.ok THEN {"success: file loaded"} ELSE {})
                  \cup (IF need /\ ~ld.ok THEN {"error: error loading file"} ELSE {})
                  \cup (IF ~held THEN {"info: upload a file"} ELSE {})
                  \cup (IF held /\ num = << >>
                        THEN {"warning: no numerical columns"} ELSE {})
                  \cup (IF sres.raised THEN {"exception: TypeError"} ELSE {})
                  \cup (IF pres.warn
                        THEN {"warning: select a valid numerical column"} ELSE {})
       /\ ev' = Event(kind, IF kind = "select" THEN uf ELSE None, need,
                      need /\ ~ld.ok, summ,
                      IF plots THEN Some(col1) ELSE None,
                      pres.plot # None, sres.raised)
       /\ UNCHANGED <<app, buttons, col_select_var, menu>>

\* a file is put into the uploader
St_upload(f) == St_script("select", Some(f), "", "")

\* the uploader's file is removed
St_remove ==
    /\ uploaded_file # None
    /\ St_script("remove", None, "", "")

\* a rerun with no button pressed (the Rerun command, a selectbox change)
St_rerun == St_script("rerun", uploaded_file, "", "")

\* '2. Show Descriptive Statistics', rendered while a table is held
St_stats_button ==
    /\ df # None
    /\ St_script("stats", uploaded_file, "stats", "")

\* 'Generate Histogram' with c in the selectbox, rendered while the held
\* table has a numeric column
St_histogram_button(c) ==
    /\ df # None
    /\ \E i \in DOMAIN numerical_cols(Get(df)) : numerical_cols(Get(df))[i] = c
    /\ St_script("plot", uploaded_file, "hist", c)

ColumnNames == {"x", "y", "z"}

Next ==
    \/ \E f \in Files : Tk_load_data(f)
    \/ Tk_cancel
    \/ \E c \in ColumnNames : Tk_setit(c)
    \/ Tk_analyze_button
    \/ Tk_visualize_button
    \/ \E f \in Files : St_upload(f)
    \/ St_remove
    \/ St_rerun
    \/ St_stats_button
    \/ \E c \in ColumnNames : St_histogram_button(c)

Spec == Init /\ [][Next]_vars

-----------------------------------------------------------------------------
(* Properties                                                              *)

\* what the last event's selected file parses to
Selected == read_csv(Get(ev.file).content)

\* c names a column of t that the Loader typed as numeric
IsNumericColumnOf(t, c) ==
    \E j \in DOMAIN t : t[j].name = c /\ t[j].dtype # "object"

HasNumericColumn(t) == \E j \in DOMAIN t : t[j].dtype # "object"

Entries(o) == IF o = None THEN << >> ELSE Get(o)

\* C1 as stated: a file selection that ends in a parse failure leaves the
\* held table as it was before the selection.
C1_FailureKeepsTable ==
    [][(ev'.kind = "select" /\ ev'.failed) => df' = df]_vars

\* C1 amended: whenever the Loader has run on a file and failed, no table is
\* held afterwards, whatever was held before.
C1_FailureClearsTable == ev.failed => df = None

\* desktop: a selection failed while a histogram of an earlier table is shown
C1_Witness ==
    /\ app = "tk"
    /\ ev.kind = "select"
    /\ ev.failed
    /\ df = None
    /\ plot_out # None

\* C2: after a file selection whose file parses, the held table is the table
\* parsed from that file.
C2_SelectionReplacesTable ==
    (ev.kind = "select" /\ Selected.ok) => df = Some(Selected.table)

\* C3: the Loader runs only in an event that is a file selection.
C3_LoaderOnlyOnSelection == ev.loader => ev.kind = "select"

\* C4: when the Plotter is invoked on the held table with a column name that
\* is not a numeric column of it, a validation message is shown and no
\* histogram is drawn; a histogram is drawn only for a numeric column of the
\* held table, and it is that column's.
C4_PlotterValidates ==
    ev.plotter # None =>
        LET c == Get(ev.plotter) IN
        /\ df # None
        /\ ~IsNumericColumnOf(Get(df), c) =>
              /\ ~ev.drew
              /\ \/ "warning: select a valid numerical column" \in msgs
                 \/ "showerror: select a valid numerical column" \in msgs
        /\ ev.drew <=> IsNumericColumnOf(Get(df), c)
        /\ ev.drew => plot_out # None /\ Get(plot_out).col = c

\* browser: a file selection replaced the table and the column chosen for
\* the earlier table was rejected
C4_Witness ==
    /\ app = "st"
    /\ ev.kind = "select"
    /\ ~ev.failed
    /\ ev.plotter # None
    /\ ~ev.drew
    /\ "warning: select a valid numerical column" \in msgs

\* C5: the Summarizer on a table with no numeric column does not raise and
\* yields an empty statistics result and an empty range list.
C5_NoNumericGivesEmpty ==
    (ev.summarizer /\ ~HasNumericColumn(Get(df))) =>
        /\ ~ev.raised
        /\ stats_out = Some(<< >>)
        /\ range_out = Some(<< >>)

\* C6: every column in the Summarizer's statistics result or range list is a
\* numeric column of the held table.
C6_OnlyNumericReported ==
    ev.summarizer =>
        /\ \A i \in DOMAIN Entries(stats_out) :
              IsNumericColumnOf(Get(df), Entries(stats_out)[i].col)
        /\ \A i \in DOMAIN Entries(range_out) :
              IsNumericColumnOf(Get(df), Entries(range_out)[i].col)

IsNumericKind(c) == c.dtype # "object"

\* maximum minus minimum of the non-missing values, to two decimals
DirectRange(c) ==
    LET S == {c.vals[i].v : i \in {k \in DOMAIN c.vals : ~c.vals[k].na}} IN
    IF S = {} THEN "nan"
    ELSE LET hi == CHOOSE m \in S : \A n \in S : n <= m
             lo == CHOOSE m \in S : \A n \in S : m <= n
         IN ToString(hi - lo) \o ".00"

\* C7: the range list has exactly one entry per numeric column of the held
\* table, in table order, each the maximum minus the minimum of the column's
\* non-missing values.
C7_OneRangePerNumericColumn ==
    ev.summarizer =>
        LET num == SelectSeq(Get(df), IsNumericKind) IN
        Entries(range_out) =
            [i \in DOMAIN num |-> [col |-> num[i].name, text |-> DirectRange(num[i])]]

\* C8: only a file selection changes the held table, and a change leaves
\* either no table or the whole table parsed from the selected file.
C8_OnlyLoadChangesTable ==
    [][/\ ev'.kind # "select" => df' = df
       /\ df' # df => \/ df' = None
                      \/ df' = Some(read_csv(Get(ev'.file).content).table)]_vars

\* a Plotter request was rejected while a table is held
C8_Witness ==
    /\ ev.kind = "plot"
    /\ ev.plotter # None
    /\ ~ev.drew
    /\ df # None

\* what the Summarizer of the running front-end shows for table t
ShownFor(t) == IF app = "tk" THEN Tk_show_statistics(t) ELSE St_show_statistics(t)

\* C9: displayed statistics and a displayed histogram are those of the
\* currently held table.
C9_DisplayFromHeldTable ==
    /\ stats_out # None =>
          /\ df # None
          /\ stats_out = ShownFor(Get(df)).stats
    /\ range_out # None =>
          /\ df # None
          /\ range_out = ShownFor(Get(df)).ranges
    /\ plot_out # None =>
          /\ df # None
          /\ Get(plot_out).col \in columns(Get(df))
          /\ plot_out = Some(hist(Get(df), Get(plot_out).col))

\* C10: in the desktop front-end the two analysis buttons are enabled exactly
\* when a table is held, so a button-triggered Summarizer or Plotter finds a
\* table.
C10_ButtonsIffTable ==
    app = "tk" =>
        /\ buttons = "normal" <=> df # None
        /\ ev.kind \in {"stats", "plot"} => df # None

\* a failed load after a successful one: the statistics of the earlier table
\* are still shown and the buttons are disabled
C10_Witness ==
    /\ app = "tk"
    /\ ev.failed
    /\ stats_out # None
    /\ buttons = "disabled"

====
